---------------------------- MODULE Spec2Model ----------------------------
(***************************************************************************)
(* Stock chatbot (StockBot Final/stock_chatbot): the background price      *)
(* refresh loop of live_ticker.py, the consumer that renders the ticker in *)
(* app.py, and the keyword router of the chatbot in app.py together with   *)
(* the sources it calls (recommender.py, fetch_stock.py, news_fetcher.py). *)
(*                                                                         *)
(* Conventions.                                                            *)
(*  - A Python str that the code inspects (substring tests, split, strip,  *)
(*    replace, endswith) is a sequence of one-character strings.  A text   *)
(*    that is only passed on (a company name, a fixed message) is a TLA+   *)
(*    string.                                                              *)
(*  - A Python dict is a sequence of entries [k, v] with distinct keys, in *)
(*    insertion order (the order .items() iterates in).                    *)
(*  - None is the empty sequence, a present value v is <<v>>.              *)
(*  - A float amount is a fixed-point integer: prices in 1/100 rupee,      *)
(*    percentages in 1/100 percent.                                        *)
(*  - random.random() is a pseudo-random generator: a small linear         *)
(*    congruential generator whose seed is drawn at start-up.              *)
(***************************************************************************)
EXTENDS Integers, Sequences, FiniteSets, TLC

(***************************************************************************)
(* Bounds of the model.                                                    *)
(***************************************************************************)
\* number of refresh cycles the loop may start in one run
MaxCycles == 2
\* number of times the external Quote Source changes its behaviour
MaxSourceChanges == 1
\* modulus of the pseudo-random generator: random() is one of k/RandMod
RandMod == 4
\* number of script runs (Streamlit reruns) of one session
MaxRuns == 2

\* number of browser sessions of the server process
MaxSessions == 3

Sessions == 1..MaxSessions

\* number of calls of the scraper on one page
MaxScrapes == 2

\* last instant of the wall clock, in ticks
MaxClock == 3

\* ticks of the wall clock per second: strftime("%S") keeps whole seconds
TicksPerSecond == 2

(***************************************************************************)
(* Python str operations, on sequences of characters.                      *)
(***************************************************************************)
LowerChars == <<"a", "b", "c", "d", "e", "f", "g", "h", "i", "j", "k", "l", "m", "n", "o", "p", "q", "r", "s", "t", "u", "v", "w", "x", "y", "z">>
UpperChars == <<"A", "B", "C", "D", "E", "F", "G", "H", "I", "J", "K", "L", "M", "N", "O", "P", "Q", "R", "S", "T", "U", "V", "W", "X", "Y", "Z">>

\* str.lower(), one character
LowerChar(c) ==
    IF \E i \in 1..Len(UpperChars) : UpperChars[i] = c
    THEN LowerChars[CHOOSE i \in 1..Len(UpperChars) : UpperChars[i] = c]
    ELSE c

\* str.upper(), one character
UpperChar(c) ==
    IF \E i \in 1..Len(LowerChars) : LowerChars[i] = c
    THEN UpperChars[CHOOSE i \in 1..Len(LowerChars) : LowerChars[i] = c]
    ELSE c

\* s.lower()
Lower(s) == [i \in 1..Len(s) |-> LowerChar(s[i])]

\* s.upper()
Upper(s) == [i \in 1..Len(s) |-> UpperChar(s[i])]

\* s.startswith(p) at offset i (1-based): s[i..i+len(p)-1] = p
MatchAt(s, p, i) ==
    /\ i + Len(p) - 1 <= Len(s)
    /\ \A j \in 1..Len(p) : s[i + j - 1] = p[j]

\* sub in s
Contains(s, sub) == \E i \in 1..(Len(s) + 1) : MatchAt(s, sub, i)

\* s.endswith(suf)
EndsWith(s, suf) == Len(suf) <= Len(s) /\ MatchAt(s, suf, Len(s) - Len(suf) + 1)

\* s.replace(old, new): every non-overlapping occurrence, left to right
RECURSIVE ReplaceFrom(_, _, _, _)
ReplaceFrom(s, old, new, i) ==
    IF i > Len(s) THEN <<>>
    ELSE IF Len(old) > 0 /\ MatchAt(s, old, i)
         THEN new \o ReplaceFrom(s, old, new, i + Len(old))
         ELSE <<s[i]>> \o ReplaceFrom(s, old, new, i + 1)

Replace(s, old, new) == ReplaceFrom(s, old, new, 1)

Whitespace == {" "}

\* s.split(): the maximal runs of non-whitespace characters, in order
RECURSIVE SplitFrom(_, _, _)
SplitFrom(s, i, cur) ==
    IF i > Len(s) THEN (IF cur = <<>> THEN <<>> ELSE <<cur>>)
    ELSE IF s[i] \in Whitespace
         THEN (IF cur = <<>> THEN <<>> ELSE <<cur>>) \o SplitFrom(s, i + 1, <<>>)
         ELSE SplitFrom(s, i + 1, Append(cur, s[i]))

Split(s) == SplitFrom(s, 1, <<>>)

\* s.lstrip(chars)
RECURSIVE LStrip(_, _)
LStrip(s, chars) ==
    IF s # <<>> /\ Head(s) \in chars THEN LStrip(Tail(s), chars) ELSE s

\* s.rstrip(chars)
RECURSIVE RStrip(_, _)
RStrip(s, chars) ==
    IF s # <<>> /\ s[Len(s)] \in chars THEN RStrip(SubSeq(s, 1, Len(s) - 1), chars) ELSE s

\* s.strip(chars)
Strip(s, chars) == RStrip(LStrip(s, chars), chars)

(***************************************************************************)
(* Python dict operations, on sequences of entries.                        *)
(***************************************************************************)
DictKeys(d) == {d[i].k : i \in 1..Len(d)}

DictHas(d, key) == \E i \in 1..Len(d) : d[i].k = key

DictGet(d, key) == d[CHOOSE i \in 1..Len(d) : d[i].k = key].v

\* d[key] = val: overwrite in place, or append a new entry
DictSet(d, key, val) ==
    IF DictHas(d, key)
    THEN [i \in 1..Len(d) |-> IF d[i].k = key THEN [k |-> key, v |-> val] ELSE d[i]]
    ELSE Append(d, [k |-> key, v |-> val])

(***************************************************************************)
(* live_ticker.py: the fixed symbol universe.                              *)
(***************************************************************************)
S_RELIANCE_NS == <<"R", "E", "L", "I", "A", "N", "C", "E", ".", "N", "S">>
S_TCS_NS == <<"T", "C", "S", ".", "N", "S">>
S_HDFCBANK_NS == <<"H", "D", "F", "C", "B", "A", "N", "K", ".", "N", "S">>
S_INFY_NS == <<"I", "N", "F", "Y", ".", "N", "S">>
S_TATAMOTORS_NS == <<"T", "A", "T", "A", "M", "O", "T", "O", "R", "S", ".", "N", "S">>
S_WIPRO_NS == <<"W", "I", "P", "R", "O", ".", "N", "S">>
S_BAJFINANCE_NS == <<"B", "A", "J", "F", "I", "N", "A", "N", "C", "E", ".", "N", "S">>
S_DOT_NS == <<".", "N", "S">>
S_DOT_BO == <<".", "B", "O">>

symbols == <<S_RELIANCE_NS, S_TCS_NS, S_HDFCBANK_NS, S_INFY_NS, S_TATAMOTORS_NS, S_WIPRO_NS, S_BAJFINANCE_NS>>

\* symbol.replace('.NS', '').replace('.BO', '')
StripSuffixes(symbol) == Replace(Replace(symbol, S_DOT_NS, <<>>), S_DOT_BO, <<>>)

\* the bare name of each symbol of the loop, computed once
CleanNames == [symbol \in {symbols[i] : i \in 1..Len(symbols)} |-> StripSuffixes(symbol)]

\* symbol_clean (line 31) and symbol_name (lines 40, 47) of a symbol of the loop
symbol_clean(symbol) == CleanNames[symbol]


(***************************************************************************)
(* State.                                                                  *)
(***************************************************************************)
VARIABLES
    \* st.session_state shared by the script and the refresh thread
    live_prices,            \* the published Snapshot: dict symbol -> {price, change}
    stop_ticker,            \* the cooperative stop flag
    ticker_thread_started,  \* set by start_live_ticker
    \* the refresh thread (update_live_prices)
    t_pc,                   \* position of the thread in update_live_prices
    idx,                    \* index of the symbol the for loop is at
    prices,                 \* the local dict of the cycle in progress
    rng,                    \* state of the random module's generator
    \* the Quote Source (yfinance), external
    src,                    \* how the source currently answers a query
    src_changes,            \* number of times it changed its behaviour
    \* history of the refresh thread
    cycle,                  \* number of cycles started
    answered,               \* source answers of the latest cycle, in symbol order
    escaped,                \* a per-symbol failure left the inner try/except
    published,              \* every Snapshot assigned to live_prices so far
    slept,                  \* the sleeps taken so far, in seconds, in order
    \* the consumer: the ticker rendering loop of a script run
    rd_pc,                  \* position of the script in the rendering loop
    rd_snap,                \* the dict object whose items() it iterates
    rd_view,                \* the items it has rendered so far
    \* the chatbot of app.py, one Streamlit session
    user_input,             \* value of the chatbot text_input widget
    chat_history,           \* st.session_state.chat_history
    runs,                   \* number of script runs so far
    utterances,             \* number of utterances whose processing has begun
    pending,                \* the widget holds an utterance no run has processed
    last_run,               \* what the latest script run did
    \* the sessions of the server process, each with its own st.session_state
    session_flag,           \* per session: ticker_thread_started is set
    call_pc,                \* per session: position of its run in start_live_ticker
    session_runs,           \* per session: number of script runs begun
    threads,                \* number of update_live_prices threads started
    \* history of the stop flag
    publishes,              \* number of Snapshot assignments (line 54) so far
    at_stop,                \* where the thread was when the flag was raised
    \* the fallback scraper called on a page of the news site
    site_page,              \* the content of the page, which does not change
    scrape_count,           \* the count argument of the calls
    clock,                  \* the wall clock, in ticks
    scraped                 \* the calls so far: the instant and the result

tickerVars == <<live_prices, stop_ticker, ticker_thread_started, t_pc, idx, prices, rng,
                src, src_changes, cycle, answered, escaped, published, slept>>
readerVars == <<rd_pc, rd_snap, rd_view>>
chatVars == <<user_input, chat_history, runs, utterances, pending, last_run>>
sessionVars == <<session_flag, call_pc, session_runs, threads>>
stopVars == <<publishes, at_stop>>
scrapeVars == <<site_page, scrape_count, clock, scraped>>
vars == <<tickerVars, readerVars, chatVars, sessionVars, stopVars, scrapeVars>>

(***************************************************************************)
(* random.random(): the generator steps and returns k, standing for the    *)
(* float k/RandMod in [0, 1).                                              *)
(***************************************************************************)
RngNext(s) == (s + 3) % RandMod

\* 1000 + random.random() * 1000, in 1/100 rupee
SynthBase(r) == 100000 + (r * 100000) \div RandMod

\* existing_price * (1 + (random.random() - 0.5) * 0.01)
Perturb(existing_price, r) ==
    (existing_price * (200 * RandMod + 2 * r - RandMod)) \div (200 * RandMod)

\* (random.random() - 0.5) * 2, in 1/100 percent
RandChange(r) == ((2 * r - RandMod) * 100) \div RandMod

\* ((price - prev_close) / prev_close) * 100, in 1/100 percent; prev_close # 0
PctChange(price, prev_close) == ((price - prev_close) * 100 * 100) \div prev_close

(***************************************************************************)
(* The Quote Source.  yf.Ticker(symbol).info either raises or is a dict in *)
(* which regularMarketPrice and previousClose are present or not.          *)
(***************************************************************************)
SourceKinds == {"raise", "none", "noprev", "ok", "zero", "prevzero"}

QuoteInfo(kind) ==
    CASE kind = "raise"    -> [raises |-> TRUE,  price |-> <<>>,      prev_close |-> <<>>]
      [] kind = "none"     -> [raises |-> FALSE, price |-> <<>>,      prev_close |-> <<>>]
      [] kind = "noprev"   -> [raises |-> FALSE, price |-> <<12000>>, prev_close |-> <<>>]
      [] kind = "ok"       -> [raises |-> FALSE, price |-> <<12000>>, prev_close |-> <<10000>>]
      [] kind = "zero"     -> [raises |-> FALSE, price |-> <<0>>,     prev_close |-> <<10000>>]
      [] kind = "prevzero" -> [raises |-> FALSE, price |-> <<12000>>, prev_close |-> <<0>>]

\* the source gave no usable pair of values for the symbol
SourceFailed(kind) ==
    QuoteInfo(kind).raises \/ QuoteInfo(kind).price = <<>> \/ QuoteInfo(kind).prev_close = <<>>

(***************************************************************************)
(* update_live_prices, one symbol (live_ticker.py lines 22-51).            *)
(***************************************************************************)
\* st.session_state.live_prices.get(symbol_clean, {}).get('price', default)
ExistingPrice(live, symbol, default) ==
    IF DictHas(live, symbol_clean(symbol)) THEN DictGet(live, symbol_clean(symbol)).price
    ELSE default

\* lines 28-36: the value-unavailable fallback; the default of .get() is
\* evaluated before the lookup, so random() is called three times
FallbackQuote(live, symbol, s) ==
    LET r1 == RngNext(s)
        r2 == RngNext(r1)
        r3 == RngNext(r2)
        existing_price == ExistingPrice(live, symbol, SynthBase(r1))
    IN  [raised |-> FALSE, price |-> Perturb(existing_price, r2),
         change |-> RandChange(r3), rng |-> r3]

\* lines 23-38: the body of the inner try
TryQuote(live, symbol, info, s) ==
    IF info.raises THEN [raised |-> TRUE, price |-> 0, change |-> 0, rng |-> s]
    ELSE IF info.price = <<>> \/ info.prev_close = <<>> THEN FallbackQuote(live, symbol, s)
    ELSE IF info.prev_close[1] = 0
         THEN [raised |-> TRUE, price |-> 0, change |-> 0, rng |-> s]  \* ZeroDivisionError
         ELSE [raised |-> FALSE, price |-> info.price[1],
               change |-> PctChange(info.price[1], info.prev_close[1]), rng |-> s]

\* a handler that lets the failure go on (a bare raise in the except block)
PlaceholderReraises(s) == [raised |-> TRUE, price |-> 0, change |-> 0, rng |-> s]

\* lines 45-51: the inner except handler
PlaceholderQuote(s) ==
    LET r1 == RngNext(s)
        r2 == RngNext(r1)
    IN  [raised |-> FALSE, price |-> SynthBase(r1), change |-> RandChange(r2), rng |-> r2]

\* lines 22-51: try, and on any exception the handler
SymbolQuote(live, symbol, info, s) ==
    IF TryQuote(live, symbol, info, s).raised THEN PlaceholderQuote(s)
    ELSE TryQuote(live, symbol, info, s)

\* lines 40-44 and 47-51: prices[symbol_name] = {'price': ..., 'change': ...}
StoreQuote(p, symbol, q) ==
    DictSet(p, symbol_clean(symbol), [price |-> q.price, change |-> q.change])

(***************************************************************************)
(* Results of a call: it raised, or it returned a value.                   *)
(***************************************************************************)
Raised == [raised |-> TRUE, value |-> <<>>]

Returned(v) == [raised |-> FALSE, value |-> v]

Min(a, b) == IF a < b THEN a ELSE b

(***************************************************************************)
(* recommender.py.  The endpoint's answer is a payload: the request raises *)
(* or answers with a status and a body; the body is JSON or not, and the   *)
(* JSON is a dict.                                                         *)
(***************************************************************************)
\* lines 7-29
get_stockrecommendations(payload) ==
    IF payload.net = "raise" THEN Raised                             \* requests.get
    ELSE IF payload.status # 200 THEN Returned(<<>>)
    ELSE IF ~payload.json THEN Raised                                \* response.json()
    ELSE IF "trending_stocks" \notin DOMAIN payload.body THEN Raised \* KeyError
    ELSE IF "top_gainers" \notin DOMAIN payload.body.trending_stocks THEN Raised
    ELSE LET list == payload.body.trending_stocks.top_gainers
         IN  IF \E i \in 1..Len(list) : "company_name" \notin DOMAIN list[i] THEN Raised
             ELSE Returned([i \in 1..Len(list) |-> list[i].company_name])

\* lines 31-52
get_sellrecommendations(payload) ==
    IF payload.net = "raise" THEN Raised
    ELSE IF payload.status # 200 THEN Returned(<<>>)
    ELSE IF ~payload.json THEN Raised
    ELSE IF "trending_stocks" \notin DOMAIN payload.body THEN Raised
    ELSE IF "top_losers" \notin DOMAIN payload.body.trending_stocks THEN Raised
    ELSE LET list == payload.body.trending_stocks.top_losers
         IN  IF \E i \in 1..Len(list) : "company_name" \notin DOMAIN list[i] THEN Raised
             ELSE Returned([i \in 1..Len(list) |-> list[i].company_name])

(***************************************************************************)
(* fetch_stock.py.  yf.download(symbol) raises or returns None, an empty   *)
(* frame, a frame that lacks a required column, or a full frame.  A market *)
(* answer gives the outcome of the query on each exchange.                 *)
(***************************************************************************)
NonEmpty(data) == data \in {"data", "missingcol"}

\* yf.download(symbol, period)
download(symbol, market) == IF EndsWith(symbol, S_DOT_BO) THEN market.bo ELSE market.ns

\* get_stock_data, lines 8-48: the pair (data, symbol) it returns; data "none"
\* stands for None
get_stock_data(symbol0, market) ==
    LET symbol == IF ~EndsWith(symbol0, S_DOT_NS) /\ ~EndsWith(symbol0, S_DOT_BO)
                  THEN symbol0 \o S_DOT_NS ELSE symbol0
        first == download(symbol, market)
        bse_symbol == Replace(symbol, S_DOT_NS, S_DOT_BO)
        tries_bse == ~NonEmpty(first) /\ EndsWith(symbol, S_DOT_NS)
        second == download(bse_symbol, market)
        data == IF tries_bse THEN second ELSE first
    IN  IF first = "raise" THEN [data |-> "none", symbol |-> symbol]
        ELSE IF tries_bse /\ second = "raise" THEN [data |-> "none", symbol |-> symbol]
        ELSE IF tries_bse /\ NonEmpty(second) THEN [data |-> second, symbol |-> bse_symbol]
        ELSE IF NonEmpty(data)
             THEN (IF data = "missingcol" THEN [data |-> "none", symbol |-> symbol]
                   ELSE [data |-> data, symbol |-> symbol])
             ELSE [data |-> "none", symbol |-> symbol]

\* embed_tradingview_chart, lines 138-235: True when the stock exists
embed_tradingview_chart(symbol, market) ==
    LET got == get_stock_data(symbol, market)
    IN  got.data # "none" /\ NonEmpty(got.data)

\* display_stock_chart, lines 237-244
display_stock_chart(symbol, market) == embed_tradingview_chart(symbol, market)

(***************************************************************************)
(* news_fetcher.py.  A news answer says whether the NewsAPI call works and *)
(* with which articles, and what the scraped page is.                      *)
(***************************************************************************)
\* scrape_economic_times, lines 19-37
scrape_economic_times(page, count, now) ==
    IF page.net = "raise" THEN Raised                                \* requests.get
    ELSE LET stories == SubSeq(page.stories, 1, Min(count, Len(page.stories)))
         IN  IF \E i \in 1..Len(stories) : stories[i].h3 = <<>> \/ stories[i].href = <<>>
             THEN Raised                             \* story.find(...) is None
             ELSE Returned([i \in 1..Len(stories) |->
                     [title |-> Strip(stories[i].h3[1], Whitespace),
                      url |-> <<"https://economictimes.indiatimes.com", stories[i].href[1]>>,
                      description |-> IF stories[i].p = <<>> THEN <<>>
                                      ELSE Strip(stories[i].p[1], Whitespace),
                      publishedAt |-> now]])

\* fetch_news, lines 11-17
fetch_news(news, count, now) ==
    IF news.api = "ok" THEN Returned(news.articles)
    ELSE scrape_economic_times(news.page, count, now)

(***************************************************************************)
(* app.py: the chatbot, lines 223-324.                                     *)
(***************************************************************************)
K_chart == <<"c", "h", "a", "r", "t">>
K_price == <<"p", "r", "i", "c", "e">>
K_buy == <<"b", "u", "y">>
K_recommend == <<"r", "e", "c", "o", "m", "m", "e", "n", "d">>
K_top_pick == <<"t", "o", "p", " ", "p", "i", "c", "k">>
K_top_stocks == <<"t", "o", "p", " ", "s", "t", "o", "c", "k", "s">>
K_which_stock == <<"w", "h", "i", "c", "h", " ", "s", "t", "o", "c", "k">>
K_sell == <<"s", "e", "l", "l">>
K_dump == <<"d", "u", "m", "p">>
K_what_to_avoid == <<"w", "h", "a", "t", " ", "t", "o", " ", "a", "v", "o", "i", "d">>
K_exit == <<"e", "x", "i", "t">>
K_market_summary == <<"m", "a", "r", "k", "e", "t", " ", "s", "u", "m", "m", "a", "r", "y">>
K_todays_trend == <<"t", "o", "d", "a", "y", "'", "s", " ", "t", "r", "e", "n", "d">>
K_market_today == <<"m", "a", "r", "k", "e", "t", " ", "t", "o", "d", "a", "y">>
K_whats_the_trend == <<"w", "h", "a", "t", "'", "s", " ", "t", "h", "e", " ", "t", "r", "e", "n", "d">>
K_news == <<"n", "e", "w", "s">>
K_latest == <<"l", "a", "t", "e", "s", "t">>

\* the keyword lists of lines 230, 244, 261, 268 and 290
ChartWords == {K_chart, K_price}
BuyWords == {K_buy, K_recommend, K_top_pick, K_top_stocks, K_which_stock}
SellWords == {K_sell, K_dump, K_what_to_avoid, K_exit}
MarketWords == {K_market_summary, K_todays_trend, K_market_today, K_whats_the_trend}
NewsWords == {K_news, K_latest}

\* any(word in lower_input for word in words)
AnyIn(words, lower_input) == \E word \in words : Contains(lower_input, word)

W_CHART == <<"C", "H", "A", "R", "T">>
W_PRICE == <<"P", "R", "I", "C", "E">>
W_SHOW == <<"S", "H", "O", "W">>
W_ME == <<"M", "E">>
W_FOR == <<"F", "O", "R">>
W_OF == <<"O", "F">>
W_THE == <<"T", "H", "E">>
W_A == <<"A">>

\* the list of line 233
Stoplist == {W_CHART, W_PRICE, W_SHOW, W_ME, W_FOR, W_OF, W_THE, W_A}

\* the characters of word.strip(".,?!")
Punctuation == {".", ",", "?", "!"}

\* the response texts; a response is a text and the values formatted into it
Text(t) == [text |-> t, args |-> <<>>]
NoResponse == Text("")
MsgChart(potential_symbol) ==
    [text |-> "Here's the TradingView chart for {potential_symbol}. Check the left panel.",
     args |-> <<[symbol |-> potential_symbol]>>]
MsgNoSymbol == Text("Couldn't detect a valid stock symbol. Try something like 'Show RELIANCE chart'.")
MsgNoPicks == Text("No top picks found at the moment. Try again later.")
MsgNoNews == Text("Couldn't find specific news. Check the top news section above.")
MsgHelp == Text("I can help with stock charts, prices, top picks, and news. Try 'top picks', 'sell today', or 'market summary'.")
MsgNews(items) ==
    [text |-> "Here's the latest news related to your query:",
     args |-> [i \in 1..Len(items) |-> [title |-> items[i].title, url |-> items[i].url]]]
MsgFound(items) ==
    [text |-> "Here's what I found related to your query:",
     args |-> [i \in 1..Len(items) |-> [title |-> items[i].title, url |-> items[i].url]]]
MsgSummary(gainers, losers) ==
    [text |-> "Market Summary Today:", args |-> <<[part |-> gainers], [part |-> losers]>>]

\* a downstream call of the chatbot: what was called, with what, what the
\* source answered and what the call gave back
Call(fn, arg, given, result) == [fn |-> fn, arg |-> arg, given |-> given, result |-> result]

\* the outcome of the chatbot block: the branch taken, the downstream calls
\* in order, the items shown with st.success / st.error, the response, and
\* whether an exception left the block before line 324
Outcome(intent, calls, shown, response, raised) ==
    [intent |-> intent, calls |-> calls, shown |-> shown, response |-> response,
     raised |-> raised]

\* the chain with the recommendation test moved above the chart test
RouteBuyFirst(lower_input) ==
    IF AnyIn(BuyWords, lower_input) THEN "BuyRecommendation"
    ELSE IF AnyIn(ChartWords, lower_input) THEN "ChartLookup"
    ELSE IF AnyIn(SellWords, lower_input) THEN "SellRecommendation"
    ELSE IF AnyIn(MarketWords, lower_input) THEN "MarketSummary"
    ELSE IF AnyIn(NewsWords, lower_input) THEN "NewsQuery"
    ELSE "Fallback"

\* the order of the tests of the if/elif chain, lines 230, 244, 261, 268, 290, 308
Route(lower_input) ==
    IF AnyIn(ChartWords, lower_input) THEN "ChartLookup"
    ELSE IF AnyIn(BuyWords, lower_input) THEN "BuyRecommendation"
    ELSE IF AnyIn(SellWords, lower_input) THEN "SellRecommendation"
    ELSE IF AnyIn(MarketWords, lower_input) THEN "MarketSummary"
    ELSE IF AnyIn(NewsWords, lower_input) THEN "NewsQuery"
    ELSE "Fallback"

\* the for loop without the break of line 239: it goes on to the later words
\* and the response names the last word that resolved
RECURSIVE ChartLoopNoBreak(_, _, _, _, _)
ChartLoopNoBreak(words, i, markets, n, calls) ==
    IF i > Len(words) THEN [response |-> NoResponse, calls |-> calls]
    ELSE IF words[i] \in Stoplist THEN ChartLoopNoBreak(words, i + 1, markets, n, calls)
    ELSE LET potential_symbol == Strip(words[i], Punctuation)
             success == display_stock_chart(potential_symbol, markets[n + 1])
             called == Append(calls, Call("display_stock_chart", potential_symbol,
                                          markets[n + 1], Returned(success)))
             rest == ChartLoopNoBreak(words, i + 1, markets, n + 1, called)
         IN  IF success /\ rest.response = NoResponse
             THEN [response |-> MsgChart(potential_symbol), calls |-> rest.calls]
             ELSE rest

\* lines 232-239: the for loop over words from position i on; n candidates
\* were tried before, markets[n + 1] is the Quote Source's answer for the next
RECURSIVE ChartLoop(_, _, _, _, _)
ChartLoop(words, i, markets, n, calls) ==
    IF i > Len(words) THEN [response |-> NoResponse, calls |-> calls]
    ELSE IF words[i] \in Stoplist THEN ChartLoop(words, i + 1, markets, n, calls)
    ELSE LET potential_symbol == Strip(words[i], Punctuation)
             success == display_stock_chart(potential_symbol, markets[n + 1])
             called == Append(calls, Call("display_stock_chart", potential_symbol,
                                          markets[n + 1], Returned(success)))
         IN  IF success
             THEN [response |-> MsgChart(potential_symbol), calls |-> called]
             ELSE ChartLoop(words, i + 1, markets, n + 1, called)

\* lines 230-241
ChartBranch(user, env) ==
    LET loop == ChartLoop(Split(Upper(user)), 1, env.markets, 0, <<>>)
    IN  Outcome("ChartLookup", loop.calls, <<>>,
                IF loop.response = NoResponse THEN MsgNoSymbol ELSE loop.response, FALSE)

\* lines 244-258: two calls; the else belongs to the for, which has no break
BuyBranch(env) ==
    LET first == get_stockrecommendations(env.rec1)
        second == get_stockrecommendations(env.rec2)
        call1 == Call("get_stockrecommendations", <<>>, env.rec1, first)
        call2 == Call("get_stockrecommendations", <<>>, env.rec2, second)
    IN  IF first.raised THEN Outcome("BuyRecommendation", <<call1>>, <<>>, NoResponse, TRUE)
        ELSE IF second.raised
             THEN Outcome("BuyRecommendation", <<call1, call2>>, <<>>, NoResponse, TRUE)
             ELSE Outcome("BuyRecommendation", <<call1, call2>>, second.value, MsgNoPicks, FALSE)

\* lines 261-265: no response is assigned
SellBranch(env) ==
    LET got == get_sellrecommendations(env.rec1)
        call1 == Call("get_sellrecommendations", <<>>, env.rec1, got)
    IN  IF got.raised THEN Outcome("SellRecommendation", <<call1>>, <<>>, NoResponse, TRUE)
        ELSE Outcome("SellRecommendation", <<call1>>, got.value, NoResponse, FALSE)

\* lines 268-287: the items of both lists are company names (str), and
\* rec['symbol'] on a str raises TypeError
MarketBranch(env) ==
    LET buys == get_stockrecommendations(env.rec1)
        sells == get_sellrecommendations(env.rec2)
        call1 == Call("get_stockrecommendations", <<>>, env.rec1, buys)
        call2 == Call("get_sellrecommendations", <<>>, env.rec2, sells)
    IN  IF buys.raised THEN Outcome("MarketSummary", <<call1>>, <<>>, NoResponse, TRUE)
        ELSE IF sells.raised
             THEN Outcome("MarketSummary", <<call1, call2>>, <<>>, NoResponse, TRUE)
        ELSE IF buys.value # <<>> \/ sells.value # <<>>
             THEN Outcome("MarketSummary", <<call1, call2>>, <<>>, NoResponse, TRUE)
        ELSE Outcome("MarketSummary", <<call1, call2>>, <<>>,
                     MsgSummary("No gainers reported.", "No losers reported."), FALSE)

\* lines 297 and 314: some word of the input occurs in the title or in the
\* description of the item
Relevant(item, words) ==
    \E w \in 1..Len(words) :
        \/ Contains(Lower(item.title), words[w])
        \/ Contains(Lower(item.description), words[w])

Matching(news_items, words) ==
    LET Test(item) == Relevant(item, words) IN SelectSeq(news_items, Test)

\* lines 290-305
NewsBranch(lower_input, env) ==
    LET got == fetch_news(env.news, 5, env.now)
        call1 == Call("fetch_news", <<>>, env.news, got)
        relevant_news == Matching(got.value, Split(lower_input))
    IN  IF got.raised THEN Outcome("NewsQuery", <<call1>>, <<>>, NoResponse, TRUE)
        ELSE Outcome("NewsQuery", <<call1>>, <<>>,
                     IF relevant_news # <<>>
                     THEN MsgNews(SubSeq(relevant_news, 1, Min(5, Len(relevant_news))))
                     ELSE MsgNoNews, FALSE)

\* lines 308-322
FallbackBranch(lower_input, env) ==
    LET got == fetch_news(env.news, 5, env.now)
        call1 == Call("fetch_news", <<>>, env.news, got)
        matched == Matching(got.value, Split(lower_input))
    IN  IF got.raised THEN Outcome("Fallback", <<call1>>, <<>>, NoResponse, TRUE)
        ELSE Outcome("Fallback", <<call1>>, <<>>,
                     IF matched # <<>>
                     THEN MsgFound(SubSeq(matched, 1, Min(3, Len(matched))))
                     ELSE MsgHelp, FALSE)

\* lines 226-322: the branch the if/elif chain takes
chatbot(user, env) ==
    LET lower_input == Lower(user)
        intent == Route(lower_input)
    IN  CASE intent = "ChartLookup"        -> ChartBranch(user, env)
          [] intent = "BuyRecommendation"  -> BuyBranch(env)
          [] intent = "SellRecommendation" -> SellBranch(env)
          [] intent = "MarketSummary"      -> MarketBranch(env)
          [] intent = "NewsQuery"          -> NewsBranch(lower_input, env)
          [] intent = "Fallback"           -> FallbackBranch(lower_input, env)

(***************************************************************************)
(* The environment of the chatbot: what the user types and what the        *)
(* external sources answer.                                                *)
(***************************************************************************)
U_ShowMeInfyChart == <<"S", "h", "o", "w", " ", "m", "e", " ", "I", "N", "F", "Y", " ", "c", "h", "a", "r", "t">>
U_ShowMeTheBuyChart == <<"s", "h", "o", "w", " ", "m", "e", " ", "t", "h", "e", " ", "b", "u", "y", " ", "c", "h", "a", "r", "t">>
U_PriceOfTcsWipro == <<"p", "r", "i", "c", "e", " ", "o", "f", " ", "T", "C", "S", ",", " ", "W", "I", "P", "R", "O", "?">>
U_ShowMeTheChart == <<"S", "h", "o", "w", " ", "m", "e", " ", "t", "h", "e", " ", "c", "h", "a", "r", "t">>
U_SellOrBuy == <<"s", "e", "l", "l", " ", "o", "r", " ", "b", "u", "y", "?">>
U_SellToday == <<"s", "e", "l", "l", " ", "t", "o", "d", "a", "y">>
U_NewsOnMarketToday == <<"n", "e", "w", "s", " ", "o", "n", " ", "m", "a", "r", "k", "e", "t", " ", "t", "o", "d", "a", "y">>
U_LatestNews == <<"l", "a", "t", "e", "s", "t", " ", "n", "e", "w", "s">>
U_Sensex == <<"s", "e", "n", "s", "e", "x">>

Utterances == {U_ShowMeInfyChart, U_ShowMeTheBuyChart, U_PriceOfTcsWipro, U_ShowMeTheChart,
               U_SellOrBuy, U_SellToday, U_NewsOnMarketToday, U_LatestNews, U_Sensex}

\* answers of the Quote Source to yf.download on the two exchanges
MarketAnswers == <<
    [ns |-> "data",       bo |-> "empty"],
    [ns |-> "empty",      bo |-> "data"],
    [ns |-> "none",       bo |-> "missingcol"],
    [ns |-> "empty",      bo |-> "empty"],
    [ns |-> "missingcol", bo |-> "data"],
    [ns |-> "raise",      bo |-> "data"],
    [ns |-> "empty",      bo |-> "raise"] >>

Company(name) == [company_name |-> name]

Trending(gainers, losers) ==
    [trending_stocks |-> [top_gainers |-> gainers, top_losers |-> losers]]

\* answers of the Recommendation Source endpoint
Payloads == <<
    [net |-> "ok", status |-> 200, json |-> TRUE,
     body |-> Trending(<<Company("Tata Steel"), Company("Infosys")>>, <<Company("Wipro")>>)],
    [net |-> "ok", status |-> 200, json |-> TRUE, body |-> Trending(<<>>, <<>>)],
    [net |-> "ok", status |-> 500, json |-> TRUE, body |-> [message |-> "server error"]],
    [net |-> "ok", status |-> 200, json |-> TRUE, body |-> [message |-> "quota exceeded"]],
    [net |-> "ok", status |-> 200, json |-> TRUE,
     body |-> [trending_stocks |-> [updated |-> "today"]]],
    [net |-> "ok", status |-> 200, json |-> TRUE,
     body |-> Trending(<<[ticker |-> "TATASTEEL"]>>, <<[ticker |-> "WIPRO"]>>)],
    [net |-> "raise", status |-> 0, json |-> FALSE, body |-> [message |-> ""]] >>

T_SensexNews == <<"S", "e", "n", "s", "e", "x", " ", "n", "e", "w", "s">>
T_Nifty == <<"N", "i", "f", "t", "y">>
T_SensexUp == <<"s", "e", "n", "s", "e", "x", " ", "u", "p">>
T_Gold == <<"G", "o", "l", "d">>
T_SensexDips == <<"S", "e", "n", "s", "e", "x", " ", "d", "i", "p", "s">>
T_Latest == <<"l", "a", "t", "e", "s", "t">>
T_SENSEX == <<"S", "E", "N", "S", "E", "X">>
T_PaddedSensexDips == <<" ">> \o T_SensexDips \o <<" ">>

Article(title, description, n) ==
    [title |-> title, url |-> <<"https://news.example/", n>>, description |-> description,
     publishedAt |-> "2025-01-01T10:00:00Z"]

Story(h3, href, p) == [h3 |-> h3, href |-> href, p |-> p]

Page(net, stories) == [net |-> net, stories |-> stories]

A_SensexNews == Article(T_SensexNews, <<>>, "1")
A_Nifty == Article(T_Nifty, T_SensexUp, "2")
A_Gold == Article(T_Gold, <<>>, "3")
A_SensexDips == Article(T_SensexDips, T_Latest, "4")
A_SENSEX == Article(T_SENSEX, T_Gold, "5")

\* answers of the News Source: the NewsAPI call and the scraped page
NewsAnswers == <<
    [api |-> "ok", articles |-> <<>>, page |-> Page("ok", <<>>)],
    [api |-> "ok", articles |-> <<A_Gold>>, page |-> Page("ok", <<>>)],
    [api |-> "ok", articles |-> <<A_SensexNews, A_Gold, A_Nifty>>, page |-> Page("ok", <<>>)],
    [api |-> "ok", articles |-> <<A_SensexNews, A_Nifty, A_SensexDips, A_SENSEX>>,
     page |-> Page("ok", <<>>)],
    [api |-> "raise", articles |-> <<>>,
     page |-> Page("ok", <<Story(<<T_PaddedSensexDips>>, <<"/markets/1">>, <<T_Latest>>),
                           Story(<<T_Gold>>, <<"/markets/2">>, <<>>)>>)],
    [api |-> "raise", articles |-> <<>>,
     page |-> Page("ok", <<Story(<<>>, <<"/markets/1">>, <<>>)>>)],
    [api |-> "raise", articles |-> <<>>, page |-> Page("raise", <<>>)] >>

\* datetime.datetime.now(), formatted
Now == "2025-01-01 10:00:00"

\* datetime.datetime.now().strftime("%Y-%m-%d %H:%M:%S") at an instant of the
\* clock: the whole seconds
StrfTime(t) == t \div TicksPerSecond

\* contents of the scraped page
ScrapePages == <<
    Page("ok", <<>>),
    Page("ok", <<Story(<<T_PaddedSensexDips>>, <<"/markets/1">>, <<T_Latest>>),
                 Story(<<T_Gold>>, <<"/markets/2">>, <<>>)>>),
    Page("ok", <<Story(<<T_Nifty>>, <<"/markets/3">>, <<T_SensexUp>>),
                 Story(<<T_Gold>>, <<"/markets/2">>, <<>>),
                 Story(<<T_SENSEX>>, <<"/markets/4">>, <<T_Latest>>)>>),
    Page("ok", <<Story(<<T_Gold>>, <<"/markets/2">>, <<>>),
                 Story(<<>>, <<"/markets/1">>, <<>>)>>),
    Page("raise", <<>>) >>

\* values of the count argument
Counts == {1, 2, 5}

\* the words of the input that the chart branch tries as symbols
NumCandidates(user) ==
    LET Kept(word) == word \notin Stoplist IN Len(SelectSeq(Split(Upper(user)), Kept))

\* the indices of the answers that a branch consults
MarketChoices(user) ==
    IF Route(Lower(user)) = "ChartLookup"
    THEN [1..NumCandidates(user) -> 1..Len(MarketAnswers)] ELSE {<<>>}

Rec1Choices(user) ==
    IF Route(Lower(user)) \in {"BuyRecommendation", "SellRecommendation", "MarketSummary"}
    THEN 1..Len(Payloads) ELSE {1}

Rec2Choices(user) ==
    IF Route(Lower(user)) \in {"BuyRecommendation", "MarketSummary"}
    THEN 1..Len(Payloads) ELSE {1}

NewsChoices(user) ==
    IF Route(Lower(user)) \in {"NewsQuery", "Fallback"} THEN 1..Len(NewsAnswers) ELSE {1}

\* the combinations of answers that the branch of an utterance consults
Choices(user) ==
    MarketChoices(user) \X Rec1Choices(user) \X Rec2Choices(user) \X NewsChoices(user)

Env(c) ==
    [markets |-> [k \in 1..Len(c[1]) |-> MarketAnswers[c[1][k]]],
     rec1 |-> Payloads[c[2]], rec2 |-> Payloads[c[3]], news |-> NewsAnswers[c[4]],
     now |-> Now]

\* what the chatbot block does with each utterance under each combination
ChatOutcomes ==
    [user \in Utterances |-> [c \in Choices(user) |-> chatbot(user, Env(c))]]

\* fetch_news() of the news panel raises for some answer, returns for another
NewsPanelMayRaise == \E top \in 1..Len(NewsAnswers) : fetch_news(NewsAnswers[top], 5, Now).raised
NewsPanelMayReturn == \E top \in 1..Len(NewsAnswers) : ~fetch_news(NewsAnswers[top], 5, Now).raised

(***************************************************************************)
(* app.py: one run of the script.  Streamlit runs the script from the top  *)
(* when the user enters a new text, and again, with the text the widget    *)
(* still holds, on any other interaction with the page.                    *)
(***************************************************************************)
NoOutcome == Outcome("none", <<>>, <<>>, NoResponse, FALSE)

InitChat ==
    /\ user_input = <<>>
    /\ chat_history = <<>>
    /\ runs = 0
    /\ utterances = 0
    /\ pending = FALSE
    /\ last_run = [phase |-> "none", input |-> <<>>, outcome |-> NoOutcome]

\* lines 223-324 of the run: the user entry, the branch, the assistant entry
ChatBlock(user, is_new, out) ==
    LET with_user == Append(chat_history, [role |-> "user", content |-> user])
    IN  /\ chat_history' =
              IF out.raised THEN with_user
              ELSE Append(with_user, [role |-> "assistant", content |-> out.response])
        /\ last_run' = [phase |-> "chat", input |-> user, outcome |-> out]
        /\ utterances' = IF is_new \/ pending THEN utterances + 1 ELSE utterances
        /\ pending' = FALSE

\* lines 1-346: start_live_ticker (line 12), the news panel (line 134), which
\* ends the run when fetch_news raises, and the chatbot (line 223 on)
ScriptRun(user, is_new) ==
    /\ runs < MaxRuns
    /\ runs' = runs + 1
    /\ user_input' = user
    /\ ticker_thread_started' = TRUE
    /\ t_pc' = IF ticker_thread_started THEN t_pc ELSE "while"
    /\ \/ /\ NewsPanelMayRaise
          /\ last_run' = [phase |-> "news_panel_raised", input |-> user,
                          outcome |-> NoOutcome]
          /\ pending' = (user # <<>> /\ (pending \/ is_new))
          /\ UNCHANGED <<chat_history, utterances>>
       \/ /\ NewsPanelMayReturn
          /\ IF user = <<>>
             THEN /\ last_run' = [phase |-> "no_input", input |-> user,
                                  outcome |-> NoOutcome]
                  /\ UNCHANGED <<chat_history, utterances, pending>>
             ELSE \E c \in DOMAIN ChatOutcomes[user] :
                     ChatBlock(user, is_new, ChatOutcomes[user][c])
    /\ UNCHANGED <<live_prices, stop_ticker, idx, prices, rng, src, src_changes, cycle,
                   answered, escaped, published, slept,
                   readerVars, sessionVars, stopVars, scrapeVars>>

\* the user enters a new text in the chatbot box
Submit == \E user \in Utterances : user # user_input /\ ScriptRun(user, TRUE)

\* the page is loaded, or the user touches another widget
Rerun == ScriptRun(user_input, FALSE)

(***************************************************************************)
(* Initial state: live_ticker.py lines 10-13 ran at import, no thread yet. *)
(***************************************************************************)
InitTicker ==
    /\ live_prices = <<>>
    /\ stop_ticker = FALSE
    /\ ticker_thread_started = FALSE
    /\ t_pc = "not_started"
    /\ idx = 1
    /\ prices = <<>>
    /\ rng \in 0..(RandMod - 1)
    /\ src \in SourceKinds
    /\ src_changes = 0
    /\ cycle = 0
    /\ answered = <<>>
    /\ escaped = FALSE
    /\ published = {}
    /\ slept = <<>>

InitReader ==
    /\ rd_pc = "idle"
    /\ rd_snap = <<>>
    /\ rd_view = <<>>

\* no session has run the script yet
InitSessions ==
    /\ session_flag = [s \in Sessions |-> FALSE]
    /\ call_pc = [s \in Sessions |-> "idle"]
    /\ session_runs = [s \in Sessions |-> 0]
    /\ threads = 0

\* the stop flag has not been raised, nothing was published
InitStop ==
    /\ publishes = 0
    /\ at_stop = <<>>

\* the scraper has not been called
InitScrape ==
    /\ site_page = ScrapePages[1]
    /\ scrape_count = 5
    /\ clock = 0
    /\ scraped = <<>>

Init == InitTicker /\ InitReader /\ InitChat /\ InitSessions /\ InitStop /\ InitScrape

\* the scraper is studied on each page and with each count
InitPages ==
    /\ InitTicker /\ rng = 0 /\ src = "ok"
    /\ InitReader /\ InitChat /\ InitSessions /\ InitStop
    /\ site_page \in {ScrapePages[i] : i \in 1..Len(ScrapePages)}
    /\ scrape_count \in Counts
    /\ clock = 0
    /\ scraped = <<>>

\* the chatbot is studied with a fixed refresh thread environment
InitSession == Init /\ rng = 0 /\ src = "ok"

(***************************************************************************)
(* The refresh thread.                                                     *)
(***************************************************************************)
\* start_live_ticker (lines 61-67), called by app.py line 12
start_live_ticker ==
    /\ ~ticker_thread_started
    /\ ticker_thread_started' = TRUE
    /\ t_pc' = "while"
    /\ UNCHANGED <<live_prices, stop_ticker, idx, prices, rng, src, src_changes, cycle,
                   answered, escaped, published, slept,
                   readerVars, chatVars, sessionVars, stopVars, scrapeVars>>

\* a loop that never reads the flag (while True)
WhileTestIgnoresStop ==
    /\ t_pc = "while"
    /\ cycle < MaxCycles
    /\ t_pc' = "for"
    /\ idx' = 1
    /\ prices' = <<>>
    /\ cycle' = cycle + 1
    /\ UNCHANGED <<live_prices, stop_ticker, ticker_thread_started, rng, src, src_changes,
                   answered, escaped, published, slept,
                   readerVars, chatVars, sessionVars, stopVars, scrapeVars>>

\* line 18: the while condition, then line 20
WhileTest ==
    /\ t_pc = "while"
    /\ IF stop_ticker
       THEN /\ t_pc' = "returned"
            /\ UNCHANGED <<idx, prices, cycle, answered>>
       ELSE /\ cycle < MaxCycles
            /\ t_pc' = "for"
            /\ idx' = 1
            /\ prices' = <<>>
            /\ cycle' = cycle + 1
    /\ UNCHANGED <<live_prices, stop_ticker, ticker_thread_started, rng, src, src_changes,
                   answered, escaped, published, slept,
                   readerVars, chatVars, sessionVars, stopVars, scrapeVars>>

\* each quote written straight into the published dict
\* (st.session_state.live_prices[symbol_name] = ... inside the for loop)
SessionWrittenInPlace(live, local) ==
    [i \in 1..(IF Len(live) > Len(local) THEN Len(live) ELSE Len(local)) |->
        IF i <= Len(local) THEN local[i] ELSE live[i]]

\* lines 20-51 write the local dict only: st.session_state.live_prices is
\* the same dict object, with the same entries, until line 54
SessionDuringCycle(live, local) == live

\* lines 21-51: one iteration of the for loop; an exception that the inner
\* handler does not absorb leaves the for loop for the handler of line 57
ForSymbol ==
    /\ t_pc = "for"
    /\ LET q == SymbolQuote(live_prices, symbols[idx], QuoteInfo(src), rng)
       IN  /\ rng' = q.rng
           /\ escaped' = (escaped \/ q.raised)
           /\ IF q.raised
              THEN /\ prices' = prices
                   /\ idx' = idx
                   /\ t_pc' = "sleep30"
              ELSE /\ prices' = StoreQuote(prices, symbols[idx], q)
                   /\ idx' = IF idx < Len(symbols) THEN idx + 1 ELSE idx
                   /\ t_pc' = IF idx < Len(symbols) THEN "for" ELSE "publish"
    /\ live_prices' = SessionDuringCycle(live_prices, prices')
    /\ answered' = IF idx = 1 THEN <<src>> ELSE Append(answered, src)
    /\ UNCHANGED <<stop_ticker, ticker_thread_started, src, src_changes, cycle,
                   published, slept, readerVars, chatVars, sessionVars, stopVars, scrapeVars>>

\* line 54: st.session_state.live_prices = prices
Publish ==
    /\ t_pc = "publish"
    /\ live_prices' = prices
    /\ published' = published \cup {prices}
    /\ t_pc' = "sleep60"
    /\ publishes' = publishes + 1
    /\ UNCHANGED at_stop
    /\ UNCHANGED <<stop_ticker, ticker_thread_started, idx, prices, rng, src, src_changes,
                   cycle, answered, escaped, slept, readerVars, chatVars, sessionVars, scrapeVars>>

\* line 54 raising (the session-state write fails), caught at line 57
PublishRaises ==
    /\ t_pc = "publish"
    /\ t_pc' = "sleep30"
    /\ UNCHANGED <<live_prices, stop_ticker, ticker_thread_started, idx, prices, rng, src,
                   src_changes, cycle, answered, escaped, published, slept,
                   readerVars, chatVars, sessionVars, stopVars, scrapeVars>>

\* line 55: time.sleep(60) returns
Sleep60 ==
    /\ t_pc = "sleep60"
    /\ slept' = Append(slept, 60)
    /\ t_pc' = "while"
    /\ UNCHANGED <<live_prices, stop_ticker, ticker_thread_started, idx, prices, rng, src,
                   src_changes, cycle, answered, escaped, published,
                   readerVars, chatVars, sessionVars, stopVars, scrapeVars>>

\* a handler that sleeps the nominal interval (time.sleep(60) at line 59)
Sleep30Nominal ==
    /\ t_pc = "sleep30"
    /\ slept' = Append(slept, 60)
    /\ t_pc' = "while"
    /\ UNCHANGED <<live_prices, stop_ticker, ticker_thread_started, idx, prices, rng, src,
                   src_changes, cycle, answered, escaped, published,
                   readerVars, chatVars, sessionVars, stopVars, scrapeVars>>

\* line 59: time.sleep(30) returns
Sleep30 ==
    /\ t_pc = "sleep30"
    /\ slept' = Append(slept, 30)
    /\ t_pc' = "while"
    /\ UNCHANGED <<live_prices, stop_ticker, ticker_thread_started, idx, prices, rng, src,
                   src_changes, cycle, answered, escaped, published,
                   readerVars, chatVars, sessionVars, stopVars, scrapeVars>>

(***************************************************************************)
(* The environment of the refresh thread.                                  *)
(***************************************************************************)
\* the Quote Source starts answering differently
SourceChange ==
    /\ src_changes < MaxSourceChanges
    /\ \E k \in SourceKinds \ {src} : src' = k
    /\ src_changes' = src_changes + 1
    /\ UNCHANGED <<live_prices, stop_ticker, ticker_thread_started, t_pc, idx, prices, rng,
                   cycle, answered, escaped, published, slept,
                   readerVars, chatVars, sessionVars, stopVars, scrapeVars>>

\* an external caller raises the stop flag
StopTicker ==
    /\ ~stop_ticker
    /\ stop_ticker' = TRUE
    /\ at_stop' = <<[t_pc |-> t_pc, idx |-> idx, cycle |-> cycle, publishes |-> publishes]>>
    /\ UNCHANGED publishes
    /\ UNCHANGED <<live_prices, ticker_thread_started, t_pc, idx, prices, rng, src,
                   src_changes, cycle, answered, escaped, published, slept,
                   readerVars, chatVars, sessionVars, scrapeVars>>

(***************************************************************************)
(* The consumer: app.py lines 90-101, the loop over                        *)
(* st.session_state.live_prices.items() of a script run.                   *)
(***************************************************************************)
\* line 90: the attribute read and items(); the run holds this dict object
RenderBegin ==
    /\ rd_pc = "idle"
    /\ ticker_thread_started
    /\ rd_snap' = live_prices
    /\ rd_view' = <<>>
    /\ rd_pc' = "items"
    /\ UNCHANGED <<tickerVars, chatVars, sessionVars, stopVars, scrapeVars>>

\* lines 90-101: one iteration, or the end of the loop
RenderItem ==
    /\ rd_pc = "items"
    /\ IF Len(rd_view) < Len(rd_snap)
       THEN /\ rd_view' = Append(rd_view, rd_snap[Len(rd_view) + 1])
            /\ rd_pc' = "items"
       ELSE /\ rd_view' = rd_view
            /\ rd_pc' = "idle"
    /\ UNCHANGED <<rd_snap, tickerVars, chatVars, sessionVars, stopVars, scrapeVars>>

(***************************************************************************)
(* start_live_ticker called by the script runs of several sessions.  Each  *)
(* session has its own st.session_state; the runs of one session follow    *)
(* one another, the runs of different sessions interleave.                 *)
(***************************************************************************)
\* app.py line 12: a script run of the session calls start_live_ticker
CallStartLiveTicker(s) ==
    /\ call_pc[s] = "idle"
    /\ session_runs[s] < MaxRuns
    /\ session_runs' = [session_runs EXCEPT ![s] = @ + 1]
    /\ call_pc' = [call_pc EXCEPT ![s] = "line63"]
    /\ UNCHANGED <<session_flag, threads>>

\* line 63: if not hasattr(st.session_state, 'ticker_thread_started')
HasattrTest(s) ==
    /\ call_pc[s] = "line63"
    /\ call_pc' = [call_pc EXCEPT ![s] = IF session_flag[s] THEN "idle" ELSE "line64"]
    /\ UNCHANGED <<session_flag, session_runs, threads>>

\* lines 64-67: set the flag of the session, create and start the thread
ThreadStart(s) ==
    /\ call_pc[s] = "line64"
    /\ session_flag' = [session_flag EXCEPT ![s] = TRUE]
    /\ threads' = threads + 1
    /\ call_pc' = [call_pc EXCEPT ![s] = "idle"]
    /\ UNCHANGED session_runs

SessionCalls ==
    \E s \in Sessions : CallStartLiveTicker(s) /\ UNCHANGED <<tickerVars,
                   readerVars, chatVars, stopVars, scrapeVars>>

SessionTests ==
    \E s \in Sessions : HasattrTest(s) /\ UNCHANGED <<tickerVars,
                   readerVars, chatVars, stopVars, scrapeVars>>

SessionStarts ==
    \E s \in Sessions : ThreadStart(s) /\ UNCHANGED <<tickerVars,
                   readerVars, chatVars, stopVars, scrapeVars>>

(***************************************************************************)
(* The fallback scraper called repeatedly while the page stays the same.   *)
(***************************************************************************)
\* scrape_economic_times(count), lines 19-37, called at the current instant
Scrape ==
    /\ Len(scraped) < MaxScrapes
    /\ scraped' = Append(scraped,
                         [at |-> clock,
                          result |-> scrape_economic_times(site_page, scrape_count, StrfTime(clock))])
    /\ UNCHANGED <<site_page, scrape_count, clock>>
    /\ UNCHANGED <<tickerVars, readerVars, chatVars, sessionVars, stopVars>>

\* time passes
Tick ==
    /\ clock < MaxClock
    /\ clock' = clock + 1
    /\ UNCHANGED <<site_page, scrape_count, scraped>>
    /\ UNCHANGED <<tickerVars, readerVars, chatVars, sessionVars, stopVars>>

NextThread == WhileTest \/ ForSymbol \/ Publish \/ Sleep60

NextTicker == start_live_ticker \/ NextThread \/ SourceChange

SpecTicker == Init /\ [][NextTicker]_vars

NextConsumer == start_live_ticker \/ NextThread \/ RenderBegin \/ RenderItem

SpecConsumer == Init /\ [][NextConsumer]_vars

NextChat == Submit \/ Rerun

SpecChat == InitSession /\ [][NextChat]_vars

NextStop == start_live_ticker \/ NextThread \/ PublishRaises \/ Sleep30 \/ StopTicker

SpecStop == Init /\ [][NextStop]_vars

\* the per-symbol queries, the session-state write and the sleeps return,
\* and the thread is scheduled
SpecStopLive ==
    /\ SpecStop
    /\ WF_vars(NextThread \/ PublishRaises \/ Sleep30)

NextScrape == Scrape \/ Tick

SpecScrape == InitPages /\ [][NextScrape]_vars

NextSessions == SessionCalls \/ SessionTests \/ SessionStarts

SpecSessions == Init /\ [][NextSessions]_vars

(***************************************************************************)
(* Properties of the refresh loop and of its consumer.                     *)
(***************************************************************************)
S_RELIANCE == <<"R", "E", "L", "I", "A", "N", "C", "E">>
S_TCS == <<"T", "C", "S">>
S_HDFCBANK == <<"H", "D", "F", "C", "B", "A", "N", "K">>
S_INFY == <<"I", "N", "F", "Y">>
S_TATAMOTORS == <<"T", "A", "T", "A", "M", "O", "T", "O", "R", "S">>
S_WIPRO == <<"W", "I", "P", "R", "O">>
S_BAJFINANCE == <<"B", "A", "J", "F", "I", "N", "A", "N", "C", "E">>

\* the seven bare symbols the dashboard shows
Universe == {S_RELIANCE, S_TCS, S_HDFCBANK, S_INFY, S_TATAMOTORS, S_WIPRO, S_BAJFINANCE}

\* a dict that holds exactly one entry for each symbol of the universe
CoversUniverse(d) ==
    /\ Len(d) = Cardinality(Universe)
    /\ DictKeys(d) = Universe
    /\ \A i, j \in 1..Len(d) : d[i].k = d[j].k => i = j

\* every source answer of the latest cycle was a failure, for all symbols
AllSymbolsFailed ==
    /\ Len(answered) = Len(symbols)
    /\ \A i \in 1..Len(answered) : SourceFailed(answered[i])

\* C1: after a refresh cycle completes, the published Snapshot holds exactly
\* one Quote for each of the 7 symbols of the universe and no other key, and
\* every Quote has price > 0, whatever the Quote Source answered.
C1_SnapshotCompleteAndPositive ==
    t_pc = "sleep60" =>
        /\ CoversUniverse(live_prices)
        /\ \A i \in 1..Len(live_prices) : live_prices[i].v.price > 0

\* C2: a consumer that reads the Snapshot while the refresh loop runs holds
\* either the Snapshot as it was before the first publish (empty) or one that
\* the loop published whole: never a dict with only some of the symbols, nor
\* one that no cycle published.
C2_ConsumerSeesWholeSnapshot ==
    rd_pc = "items" =>
        /\ rd_snap = <<>> \/ rd_snap \in published
        /\ rd_snap # <<>> => CoversUniverse(rd_snap)
        /\ \A i \in 1..Len(rd_view) : rd_view[i] = rd_snap[i]

\* C2 witness: the consumer is part-way through the Snapshot of the first
\* cycle while the loop is part-way through the second cycle.
C2_Witness ==
    /\ rd_pc = "items"
    /\ Len(rd_view) = 3
    /\ Len(rd_snap) = Len(symbols)
    /\ cycle = 2
    /\ t_pc = "for"
    /\ idx = 4
    /\ prices # SubSeq(rd_snap, 1, 3)

\* C3: when the Quote Source fails for every symbol of a cycle, no failure
\* leaves the per-symbol handler, the cycle ends with a Quote for every symbol
\* of the universe, which it publishes, and the thread is on its way to the
\* next cycle: it has not left the loop.
C3_TotalFailureAbsorbed ==
    /\ ~escaped
    /\ AllSymbolsFailed =>
        /\ t_pc \in {"publish", "sleep60", "while", "for"}
        /\ t_pc = "for" => idx = 1
        /\ t_pc = "publish" => CoversUniverse(prices)
        /\ t_pc \in {"sleep60", "while", "for"} =>
              CoversUniverse(live_prices) /\ live_prices \in published

\* C3 witness: a cycle in which every symbol failed, with answers that raise
\* and answers without values, was published and the next cycle has begun.
C3_Witness ==
    /\ AllSymbolsFailed
    /\ \E i \in 1..Len(answered) : QuoteInfo(answered[i]).raises
    /\ \E i \in 1..Len(answered) : ~QuoteInfo(answered[i]).raises
    /\ cycle = 2
    /\ t_pc = "for"
    /\ slept = <<60>>
    /\ CoversUniverse(live_prices)

(***************************************************************************)
(* Properties of the chatbot.                                              *)
(***************************************************************************)
\* the priority order of the intents
IntentOrder == <<"ChartLookup", "BuyRecommendation", "SellRecommendation", "MarketSummary",
                 "NewsQuery", "Fallback">>

\* the keyword trigger of an intent matches the lower-cased input
Triggered(intent, lower_input) ==
    CASE intent = "ChartLookup"        -> AnyIn(ChartWords, lower_input)
      [] intent = "BuyRecommendation"  -> AnyIn(BuyWords, lower_input)
      [] intent = "SellRecommendation" -> AnyIn(SellWords, lower_input)
      [] intent = "MarketSummary"      -> AnyIn(MarketWords, lower_input)
      [] intent = "NewsQuery"          -> AnyIn(NewsWords, lower_input)
      [] intent = "Fallback"           -> TRUE

\* the downstream calls that belong to an intent
ActionsOf(intent) ==
    CASE intent = "ChartLookup"        -> {"display_stock_chart"}
      [] intent = "BuyRecommendation"  -> {"get_stockrecommendations"}
      [] intent = "SellRecommendation" -> {"get_sellrecommendations"}
      [] intent = "MarketSummary"      -> {"get_stockrecommendations", "get_sellrecommendations"}
      [] intent = "NewsQuery"          -> {"fetch_news"}
      [] intent = "Fallback"           -> {"fetch_news"}

\* the response texts that belong to an intent
TextsOf(intent) ==
    CASE intent = "ChartLookup"        -> {MsgChart(<<>>).text, MsgNoSymbol.text}
      [] intent = "BuyRecommendation"  -> {MsgNoPicks.text}
      [] intent = "SellRecommendation" -> {NoResponse.text}
      [] intent = "MarketSummary"      -> {MsgSummary("", "").text}
      [] intent = "NewsQuery"          -> {MsgNews(<<>>).text, MsgNoNews.text}
      [] intent = "Fallback"           -> {MsgFound(<<>>).text, MsgHelp.text}

\* the latest run reached the chatbot block with an utterance
Chatted == last_run.phase = "chat"

\* C4: the chatbot handles an utterance as exactly one intent, the first in
\* the order ChartLookup, BuyRecommendation, SellRecommendation,
\* MarketSummary, NewsQuery, Fallback whose trigger matches the lower-cased
\* input; only the calls of that intent are made and the response is one of
\* that intent.
C4_FirstMatchWins ==
    Chatted =>
        LET out == last_run.outcome
            lower_input == Lower(last_run.input)
        IN  /\ \E i \in 1..Len(IntentOrder) :
                  /\ out.intent = IntentOrder[i]
                  /\ Triggered(IntentOrder[i], lower_input)
                  /\ \A j \in 1..(i - 1) : ~Triggered(IntentOrder[j], lower_input)
            /\ \A c \in 1..Len(out.calls) : out.calls[c].fn \in ActionsOf(out.intent)
            /\ ~out.raised => out.response.text \in TextsOf(out.intent)

\* C4 witness: "show me the buy chart" matches the triggers of ChartLookup
\* and of BuyRecommendation and was handled as ChartLookup.
C4_Witness ==
    /\ Chatted
    /\ last_run.input = U_ShowMeTheBuyChart
    /\ Triggered("BuyRecommendation", Lower(last_run.input))
    /\ last_run.outcome.intent = "ChartLookup"
    /\ Len(last_run.outcome.calls) = 1
    /\ Len(chat_history) = 2

\* C5: after N utterances have been processed the chat history holds exactly
\* 2N entries, a user entry and an assistant entry per utterance, alternating.
C5_TwoEntriesPerUtterance ==
    /\ Len(chat_history) = 2 * utterances
    /\ \A i \in 1..Len(chat_history) :
          chat_history[i].role = IF i % 2 = 1 THEN "user" ELSE "assistant"

\* C6: in the BuyRecommendation intent the response is the no-picks message
\* if and only if the source returned no gainers; the gainers it returned are
\* all presented.
C6_NoPicksIffNoGainers ==
    (Chatted /\ last_run.outcome.intent = "BuyRecommendation" /\ ~last_run.outcome.raised) =>
        LET out == last_run.outcome
            gainers == out.calls[2].result.value
        IN  /\ (out.response = MsgNoPicks) <=> (gainers = <<>>)
            /\ out.shown = gainers

\* C7: in the SellRecommendation intent, when the source returns an empty
\* loser list, the chatbot raises nothing and answers with a message: the
\* assistant entry appended to the history has a text.
C7_EmptyLosersGetAMessage ==
    (/\ Chatted
     /\ last_run.outcome.intent = "SellRecommendation"
     /\ last_run.outcome.calls[1].result = Returned(<<>>)) =>
        /\ ~last_run.outcome.raised
        /\ last_run.outcome.response # NoResponse
        /\ chat_history[Len(chat_history)] =
              [role |-> "assistant", content |-> last_run.outcome.response]

\* the empty-result message of an intent
EmptyResult(intent) ==
    CASE intent = "ChartLookup"        -> MsgNoSymbol
      [] intent = "BuyRecommendation"  -> MsgNoPicks
      [] intent = "SellRecommendation" -> MsgNoPicks
      [] intent = "MarketSummary"      -> MsgSummary("No gainers reported.", "No losers reported.")
      [] intent = "NewsQuery"          -> MsgNoNews
      [] intent = "Fallback"           -> MsgHelp

\* the source behind a downstream call failed: the request raised, the
\* payload was not of the expected shape, or both news sources failed
SourceCallFailed(call) ==
    IF call.fn = "display_stock_chart"
    THEN call.given.ns = "raise" \/ (~NonEmpty(call.given.ns) /\ call.given.bo = "raise")
    ELSE call.result.raised

\* C8: a failure of a downstream source call does not leave the chatbot: the
\* utterance gets its assistant entry, and when every source call of the
\* intent failed the response is the intent's empty-result message.
C8_SourceFailureStaysInside ==
    (Chatted /\ \E c \in 1..Len(last_run.outcome.calls) :
                    SourceCallFailed(last_run.outcome.calls[c])) =>
        LET out == last_run.outcome
        IN  /\ ~out.raised
            /\ chat_history[Len(chat_history)].role = "assistant"
            /\ (\A c \in 1..Len(out.calls) : SourceCallFailed(out.calls[c]))
                  => out.response = EmptyResult(out.intent)

\* the list a recommender function reads
ListOf(fn) == IF fn = "get_stockrecommendations" THEN "top_gainers" ELSE "top_losers"

\* the payload has the expected shape for that list
WellFormed(payload, list_name) ==
    /\ "trending_stocks" \in DOMAIN payload.body
    /\ list_name \in DOMAIN payload.body.trending_stocks
    /\ \A i \in 1..Len(payload.body.trending_stocks[list_name]) :
          "company_name" \in DOMAIN payload.body.trending_stocks[list_name][i]

\* C9: when the endpoint answers, get_stockrecommendations and
\* get_sellrecommendations never raise: they return the empty list for a
\* non-200 status or a payload without the expected shape, and the company
\* names of their list, in source order, for a well-formed 200 payload.
C9_RecommenderNeverRaises ==
    Chatted =>
        \A c \in 1..Len(last_run.outcome.calls) :
            LET call == last_run.outcome.calls[c]
                list_name == ListOf(call.fn)
            IN  IF call.fn \notin {"get_stockrecommendations", "get_sellrecommendations"}
                THEN TRUE
                ELSE IF call.given.net # "ok" THEN TRUE
                ELSE IF call.given.status # 200 \/ ~WellFormed(call.given, list_name)
                THEN call.result = Returned(<<>>)
                ELSE LET list == call.given.body.trending_stocks[list_name]
                     IN  call.result = Returned([i \in 1..Len(list) |-> list[i].company_name])

\* the candidates of the chart branch: the words of the upper-cased input
\* outside the stoplist, with the punctuation stripped, in input order
Candidates(user) ==
    LET Kept(word) == word \notin Stoplist
        kept == SelectSeq(Split(Upper(user)), Kept)
    IN  [i \in 1..Len(kept) |-> Strip(kept[i], Punctuation)]

\* C10: the chart branch tries the candidates in input order and stops at
\* the first that resolves, which the response names; when none resolves, or
\* there is none, the response is the couldn't-detect message.
C10_FirstResolvingCandidate ==
    (Chatted /\ last_run.outcome.intent = "ChartLookup") =>
        LET out == last_run.outcome
            cands == Candidates(last_run.input)
            n == Len(out.calls)
        IN  /\ ~out.raised
            /\ n <= Len(cands)
            /\ \A i \in 1..n : out.calls[i].arg = cands[i]
            /\ \A i \in 1..(n - 1) : ~out.calls[i].result.value
            /\ IF n > 0 /\ out.calls[n].result.value
               THEN out.response = MsgChart(cands[n])
               ELSE n = Len(cands) /\ out.response = MsgNoSymbol

\* C10 witness: "price of TCS, WIPRO?": TCS did not resolve, WIPRO resolved
\* on the secondary exchange and is named by the response.
C10_Witness ==
    /\ Chatted
    /\ last_run.input = U_PriceOfTcsWipro
    /\ Len(last_run.outcome.calls) = 2
    /\ ~last_run.outcome.calls[1].result.value
    /\ last_run.outcome.calls[2].given = [ns |-> "empty", bo |-> "data"]
    /\ last_run.outcome.response = MsgChart(S_WIPRO)

\* the latest run took the market branch and both recommendation calls
\* returned a list
BothListsReturned ==
    /\ Chatted
    /\ last_run.outcome.intent = "MarketSummary"
    /\ Len(last_run.outcome.calls) = 2
    /\ ~last_run.outcome.calls[1].result.raised
    /\ ~last_run.outcome.calls[2].result.raised

\* C11: in the MarketSummary intent the gainer and the loser source are both
\* called and, for every pair of lists they return, one combined summary is
\* the response: each half says "No ... reported" when its own list is empty
\* and lists the items of its own list otherwise, whatever the other list is.
C11_SummaryHalvesIndependent ==
    BothListsReturned =>
        LET out == last_run.outcome
            buys == out.calls[1].result.value
            sells == out.calls[2].result.value
        IN  /\ out.calls[1].fn = "get_stockrecommendations"
            /\ out.calls[2].fn = "get_sellrecommendations"
            /\ ~out.raised
            /\ out.response.text = MsgSummary("", "").text
            /\ IF buys = <<>> THEN out.response.args[1].part = "No gainers reported."
                              ELSE out.response.args[1].part = buys
            /\ IF sells = <<>> THEN out.response.args[2].part = "No losers reported."
                               ELSE out.response.args[2].part = sells

(***************************************************************************)
(* Properties of start_live_ticker across sessions.                        *)
(***************************************************************************)
\* C12: whatever the number of calls to start_live_ticker, from reruns and
\* from several sessions of the process, interleaved or not, at most one
\* refresh-loop thread has been started.
C12_OneRefreshThread == threads <= 1

(***************************************************************************)
(* Properties of the stop flag and of the sleeps.                          *)
(***************************************************************************)
\* the stop flag has been raised while the thread was inside a cycle
RaisedMidCycle == at_stop # <<>> /\ at_stop[1].t_pc \in {"for", "publish"}

\* since the flag was raised no cycle was started and at most one Snapshot
\* was published; the thread returns from the while test only, each of its
\* cycles ended by its sleep
StopObservedAtTop ==
    /\ at_stop # <<>> =>
          /\ cycle = at_stop[1].cycle
          /\ publishes <= at_stop[1].publishes + 1
          /\ at_stop[1].t_pc \notin {"for", "publish"} => publishes = at_stop[1].publishes
    /\ t_pc = "returned" => stop_ticker /\ Len(slept) = cycle

\* C13: once the stop flag is raised (it stays raised) the loop starts no new
\* cycle and publishes at most once more, the cycle in progress runs to its
\* sleep because the flag is read only by the while test, and, the queries
\* and the sleeps returning, the thread eventually leaves the loop.
C13_StopsAtCycleBoundary ==
    /\ []StopObservedAtTop
    /\ (stop_ticker /\ t_pc # "not_started") ~> (t_pc = "returned")

\* C13 witness: the flag was raised at the third symbol of the first cycle;
\* the cycle published its Snapshot, slept, and the thread returned.
C13_Witness ==
    /\ RaisedMidCycle
    /\ at_stop[1].t_pc = "for"
    /\ at_stop[1].idx = 3
    /\ at_stop[1].cycle = 1
    /\ publishes = at_stop[1].publishes + 1
    /\ slept = <<60>>
    /\ t_pc = "returned"

(***************************************************************************)
(* Properties of the source functions.                                     *)
(***************************************************************************)
\* the chart lookups of the latest run: the symbol tried and the answers of
\* the two exchanges
ChartCalls ==
    IF Chatted
    THEN {last_run.outcome.calls[c] : c \in 1..Len(last_run.outcome.calls)}
    ELSE {}

\* C14: get_stock_data follows the chain NS, then BO, then not found: when
\* the NS query yields data it returns that data with the NS symbol;
\* otherwise, when the BO query yields data, that data with the BO symbol; it
\* returns no data only when neither query yields any.
C14_PrimaryThenSecondary ==
    \A call \in ChartCalls :
        call.fn = "display_stock_chart" =>
            LET got == get_stock_data(call.arg, call.given)
            IN  IF NonEmpty(call.given.ns)
                THEN got = [data |-> call.given.ns, symbol |-> call.arg \o S_DOT_NS]
                ELSE IF NonEmpty(call.given.bo)
                THEN got = [data |-> call.given.bo, symbol |-> call.arg \o S_DOT_BO]
                ELSE got.data = "none"

\* C15: two calls of scrape_economic_times on the same page content return
\* the same sequence of items, equal in title, url, description and
\* publishedAt; the items follow the order of the page and are at most count.
C15_ScraperIdempotent ==
    \A i, j \in 1..Len(scraped) :
        (~scraped[i].result.raised /\ ~scraped[j].result.raised) =>
            /\ scraped[i].result.value = scraped[j].result.value
            /\ Len(scraped[i].result.value) <= scrape_count
            /\ \A k \in 1..Len(scraped[i].result.value) :
                  scraped[i].result.value[k].title = Strip(site_page.stories[k].h3[1], Whitespace)

(***************************************************************************)
(* Properties of the Quotes of a cycle.  While the thread is in the for    *)
(* loop or about to publish, live_prices is the previous Snapshot, prices  *)
(* holds the Quotes of the cycle and answered the source answers they were *)
(* made from, in the same order.                                           *)
(***************************************************************************)
InsideCycle == t_pc \in {"for", "publish"} /\ Len(answered) = Len(prices)

\* price is base perturbed by at most 0.5 percent, up to the rounding of one
\* hundredth of a rupee
WithinHalfPercent(price, base) ==
    /\ 200 * (price + 1) >= 199 * base
    /\ 200 * price <= 201 * base

\* C16: a Quote synthesized in a cycle, because a value was unavailable or
\* because the query raised, has a price within 0.5 percent of the symbol's
\* price in the previous Snapshot when there is one, and within 0.5 percent
\* of a base in [1000, 2000] only when there is none; its percentChange is
\* within [-1, +1].
C16_SyntheticFromPrevious ==
    InsideCycle =>
        \A i \in 1..Len(prices) :
            SourceFailed(answered[i]) =>
                /\ prices[i].v.change >= -100
                /\ prices[i].v.change <= 100
                /\ IF DictHas(live_prices, prices[i].k)
                   THEN WithinHalfPercent(prices[i].v.price,
                                          DictGet(live_prices, prices[i].k).price)
                   ELSE /\ 200 * (prices[i].v.price + 1) >= 199 * 100000
                        /\ 200 * prices[i].v.price <= 201 * 200000

\* C17: when the Quote Source returns a price and a previous close for a
\* symbol, the Quote of the cycle carries that price, and the percentChange
\* (price - prevClose) / prevClose * 100; it is never synthetic, also when
\* the previous close is 0 (where the quotient has no value to compare).
C17_RealQuoteKept ==
    InsideCycle =>
        \A i \in 1..Len(prices) :
            LET info == QuoteInfo(answered[i])
            IN  (~info.raises /\ info.price # <<>> /\ info.prev_close # <<>>) =>
                    /\ prices[i].v.price = info.price[1]
                    /\ info.prev_close[1] # 0 =>
                          prices[i].v.change = PctChange(info.price[1], info.prev_close[1])

\* the number of sleeps of the given length taken so far
SleepsOf(seconds) == Cardinality({i \in 1..Len(slept) : slept[i] = seconds})

\* every cycle that ended was followed by one sleep: 60 s for each cycle
\* that published, 30 s for each cycle left by an exception
OneSleepPerCycle ==
    /\ \A i \in 1..Len(slept) : slept[i] \in {60, 30}
    /\ Len(slept) = IF t_pc \in {"for", "publish", "sleep60", "sleep30"}
                    THEN cycle - 1 ELSE cycle
    /\ SleepsOf(60) = IF t_pc = "sleep60" THEN publishes - 1 ELSE publishes

\* a step into or out of the 30 s sleep leaves the Snapshot as it was
FailedCycleKeepsSnapshot ==
    (t_pc' = "sleep30" \/ t_pc = "sleep30") =>
        /\ live_prices' = live_prices
        /\ published' = published
        /\ publishes' = publishes

\* C18: between two consecutive cycles the loop sleeps exactly once, 60 s
\* after a cycle that published its Snapshot and 30 s after a cycle left by
\* an exception; a cycle left by an exception publishes nothing and the
\* Snapshot published before it stays as it was.
C18_OneSleepBetweenCycles ==
    /\ []OneSleepPerCycle
    /\ [][FailedCycleKeepsSnapshot]_vars

\* C18 witness: the first cycle published and slept 60 s, the second was
\* left by an exception and slept 30 s; the Snapshot is that of the first.
C18_Witness ==
    /\ slept = <<60, 30>>
    /\ cycle = 2
    /\ publishes = 1
    /\ CoversUniverse(live_prices)
    /\ published = {live_prices}
    /\ t_pc = "while"

====
